---- MODULE Spec2Model ----
(***************************************************************************)
(* CitySense: the issue documents and their votes (services/database.js    *)
(* and its Cloudinary-backed variant), the issue cache of the optimized    *)
(* database service, the Cloudinary batch / fast upload, and AuthProvider. *)
(* Each subsystem has its own specification over the shared variables.     *)
(***************************************************************************)
EXTENDS Integers, Sequences, FiniteSets, TLC

\* ------------------------------------------------------------------ bounds
\* upvoteIssue / removeUpvote calls started in one behaviour
MaxVotes == 4
\* upvoteIssue / removeUpvote calls of the Cloudinary-backed variant
MaxCldCalls == 6
\* issue documents the collection may hold
MaxIssues == 1
\* issue documents the optimized service may create
MaxOptIssues == 1
\* clock advances in one behaviour
MaxTicks == 2
\* files handed to batchUploadImages
MaxFiles == 4
\* uploadImageToCloudinaryFast calls made directly
MaxUploads == 2
\* reports of the identity provider's session observer
MaxReports == 4
\* window online / offline events and monitorNetworkStatus calls
MaxNetSteps == 5
\* issues the admin dashboard fetches
MaxAdminIssues == 5
\* issues the Home page fetches
MaxHomeIssues == 3
\* updateIssue / deleteIssue requests one admin session has in flight at once
MaxRequests == 2
\* requests in flight at once where several admin sessions work side by side
MaxAdminRequests == 1

Users == {"alice", "bob"}
Callers == {"c1", "c2"}
IssueIds == 1..MaxIssues

VARIABLES
    issues,     \* Firestore collection 'issues': id -> document
    calls,      \* upvoteIssue calls of database.js, one slot per caller
    votes,      \* number of vote calls started so far
    prevVote,   \* the last upvoteIssue call that completed without overlap
    lastCall,   \* the last addIssue / createIssue / deleteIssue call: how it ended
    cdn,        \* Cloudinary: the public ids of the images it stores
    now,        \* Date.now(), in milliseconds
    ticks,      \* number of clock advances so far
    cache,      \* optimized service: cache Map, key -> {data, timestamp}
    issueDocs,  \* optimized service: documents of 'issues', in commit order
    userDocs,   \* collection 'users': userId -> issueCount
    create,     \* optimized service: the createIssue call
    get,        \* optimized service: getIssues calls, one slot per caller
    files,      \* batchUploadImages: the files argument
    batch,      \* batchUploadImages: the call (pc, loop index i, results)
    promises,   \* batchUploadImages: the upload promise of each file
    up,         \* uploadImageToCloudinaryFast: the calls made directly
    session,    \* identity provider: the signed-in user it last reported
    reports,    \* identity provider: number of reports so far
    user,       \* AuthProvider state
    userRole,   \* AuthProvider state
    loading,    \* AuthProvider state
    lookups,    \* AuthProvider: getUserRole calls awaited by observer callbacks
    processed,  \* which reports' callbacks have run to their end, and the
                \* role the latest report's lookup returned
    isOnline,   \* optimized service: module variable isOnline
    network,    \* Firestore client: network enabled / disabled
    netLog,     \* the window events and monitorNetworkStatus calls so far
    admin,      \* AdminDashboard state: issues, escalatedIssues, loading
    report,     \* Report page state: user, formData, errors, loading
    home,       \* Home page state: issues, filteredIssues, the two selections
    app,        \* App state: user, userRole, loading, the router's path, and
                \* the session observer's reports and pending role lookups
    tabIssues,  \* the 'issues' documents the admin sessions work on
    tabs,       \* AdminDashboard of each session: issues, updating, and the
                \* selectedIssue of its IssuesTab
    requests    \* updateIssue / deleteIssue requests in flight

voteVars == <<issues, calls, votes, prevVote, lastCall, cdn>>
cacheVars == <<now, ticks, cache, issueDocs, userDocs, create, get>>
uploadVars == <<files, batch, promises, up>>
authVars == <<session, reports, user, userRole, loading, lookups, processed>>
netVars == <<isOnline, network, netLog>>
adminVars == <<admin>>
reportVars == <<report>>
homeVars == <<home>>
appVars == <<app>>
tabVars == <<tabIssues, tabs, requests>>
vars == <<issues, calls, votes, prevVote, lastCall, cdn, now, ticks, cache, issueDocs, userDocs,
          create, get, files, batch, promises, up, session, reports, user, userRole,
          loading, lookups, processed, isOnline, network, netLog,
          admin, report, home, app, tabIssues, tabs, requests>>
\* what the operations of one service leave alone: the other services' state
notVote == <<cacheVars, uploadVars, authVars, netVars, adminVars, reportVars,
    homeVars, appVars, tabVars>>
notCache == <<voteVars, uploadVars, authVars, netVars, adminVars, reportVars,
    homeVars, appVars, tabVars>>
notUpload == <<voteVars, cacheVars, authVars, netVars, adminVars, reportVars,
    homeVars, appVars, tabVars>>
notAuth == <<voteVars, cacheVars, uploadVars, netVars, adminVars, reportVars,
    homeVars, appVars, tabVars>>
notNet == <<voteVars, cacheVars, uploadVars, authVars, adminVars, reportVars,
    homeVars, appVars, tabVars>>
notAdmin == <<voteVars, cacheVars, uploadVars, authVars, netVars, reportVars,
    homeVars, appVars, tabVars>>
notReport == <<voteVars, cacheVars, uploadVars, authVars, netVars, adminVars,
    homeVars, appVars, tabVars>>
notHome == <<voteVars, cacheVars, uploadVars, authVars, netVars, adminVars,
    reportVars, appVars, tabVars>>
notApp == <<voteVars, cacheVars, uploadVars, authVars, netVars, adminVars,
    reportVars, homeVars, tabVars>>
notTab == <<voteVars, cacheVars, uploadVars, authVars, netVars, adminVars,
    reportVars, homeVars, appVars>>

\* ------------------------------------------------- Firestore field values
ISSUE_STATUS == [OPEN |-> "Open", IN_PROGRESS |-> "In Progress", RESOLVED |-> "Resolved"]

includes(arr, x) == \E k \in 1..Len(arr) : arr[k] = x

increment(n, d) == n + d

arrayUnion(arr, x) == IF includes(arr, x) THEN arr ELSE Append(arr, x)

arrayRemove(arr, x) == SelectSeq(arr, LAMBDA y : y # x)

null == "null"

\* { ...a, ...b } and updateDoc(a, b): the fields of both, b's values winning
ObjectSpreadKeepsFirst(a, b) ==
    [k \in DOMAIN a \cup DOMAIN b |-> IF k \in DOMAIN a THEN a[k] ELSE b[k]]

ObjectSpread(a, b) ==
    [k \in DOMAIN a \cup DOMAIN b |-> IF k \in DOMAIN b THEN b[k] ELSE a[k]]

\* the issueData callers pass: the form's fields alone, or with values for
\* the fields addIssue / createIssue set themselves
PlainIssueData == [title |-> "t"]

IssueDataInputs ==
    {PlainIssueData,
     [title |-> "t", status |-> "Closed", upvotes |-> 7, upvotedBy |-> <<"bob">>,
      resolvedAt |-> "then", resolvedBy |-> "bob"]}

\* the fields addIssue / createIssue write after ...issueData
NewIssueFields ==
    [status |-> ISSUE_STATUS.OPEN, upvotes |-> 0, upvotedBy |-> <<>>,
     timestamp |-> "now", resolvedAt |-> null, resolvedBy |-> null]

\* the document addIssue / createIssue hand to addDoc
NewIssue(issueData, more) == ObjectSpread(issueData, ObjectSpread(more, NewIssueFields))

\* addDoc: a fresh document id
NewId == CHOOSE i \in IssueIds : i \notin DOMAIN issues

NoData == [upvotes |-> 0, upvotedBy |-> <<>>]
IdleCall == [pc |-> "idle", issueId |-> 0, userId |-> "", issueData |-> NoData,
             ret |-> "none", overlapped |-> FALSE]
\* valid: a call completed without overlapping another; before / after: the
\* vote fields around its write; pair: the preceding call on that issue was
\* the same user's and did not overlap either, pairBefore: the vote fields
\* before that preceding call
NoVote == [valid |-> FALSE, issueId |-> 0, userId |-> "", before |-> NoData,
           after |-> NoData, ret |-> "none", pair |-> FALSE, pairBefore |-> NoData]

VoteFields(d) == [upvotes |-> d.upvotes, upvotedBy |-> d.upvotedBy]

\* ------------------------------------------------ database.js: the issues
\* error.message of a failed upload (uploadBytes, getDownloadURL, Cloudinary)
\* and of a failed database write; a message is held as its parts in order
Original == [upload |-> <<"upload rejected">>, write |-> <<"permission-denied">>]

FailedToCreateBare(message) == message

FailedToCreate(message) == <<"Failed to create issue: ">> \o message

ImageUploadFailed(message) == <<"Image upload failed: ">> \o message

\* carried: issueData had values for the fields the service sets itself
\* issuesBefore: the collection before an updateIssue call
NoCall == [fn |-> "none", service |-> "none", issueId |-> 0, carried |-> FALSE, failure |-> "none", original |-> <<>>,
           thrown |-> <<>>, docsBefore |-> {}, cdnBefore |-> {}, cdnFailed |-> FALSE,
           issuesBefore |-> <<>>]

\* how a call ends: "ok", or the step that failed; "hang": compressImage
\* settles only from img.onload, so it never settles for a file that does
\* not load
AddOutcomes(imageFile) ==
    IF imageFile THEN {"ok", "hang", "upload", "write"} ELSE {"ok", "write"}

AddIssue(issueData, imageFile, outcome) ==
    /\ Cardinality(DOMAIN issues) < MaxIssues
    /\ outcome \in AddOutcomes(imageFile)
    /\ issues' = IF outcome = "ok"
                 THEN LET imageURL == IF imageFile THEN "url" ELSE null
                      IN  issues @@ (NewId :> NewIssue(issueData, [imageURL |-> imageURL]))
                 ELSE issues
    /\ lastCall' = [NoCall EXCEPT
            !.fn = "addIssue", !.service = "database.js", !.failure = outcome,
            !.carried = "status" \in DOMAIN issueData,
            !.docsBefore = DOMAIN issues,
            !.original = IF outcome \in DOMAIN Original THEN Original[outcome] ELSE <<>>,
            !.thrown = IF outcome \in DOMAIN Original
                       THEN FailedToCreate(Original[outcome]) ELSE <<>>]
    /\ UNCHANGED <<calls, votes, prevVote, cdn, notVote>>

\* createIssue rethrows the error of addDoc as it is
CreateIssue(issueData, ok) ==
    /\ Cardinality(DOMAIN issues) < MaxIssues
    /\ issues' = IF ok THEN issues @@ (NewId :> NewIssue(issueData, <<>>)) ELSE issues
    /\ lastCall' = [NoCall EXCEPT
            !.fn = "createIssue", !.service = "database.js",
            !.carried = "status" \in DOMAIN issueData, !.failure = IF ok THEN "ok" ELSE "write",
            !.docsBefore = DOMAIN issues,
            !.original = IF ok THEN <<>> ELSE Original.write,
            !.thrown = IF ok THEN <<>> ELSE Original.write]
    /\ UNCHANGED <<calls, votes, prevVote, cdn, notVote>>

\* --------------------------------------------- database.js: upvoteIssue
InFlight(q, i) == calls[q].pc = "read" /\ calls[q].issueId = i

\* the update upvoteIssue sends, applied by the database to the document as
\* it is when the write arrives (increment / arrayUnion / arrayRemove are
\* field transforms); issueData is what the call read before
UpvoteLastWriteWins(d, issueData, userId) ==
    IF includes(issueData.upvotedBy, userId)
    THEN [d EXCEPT !.upvotes = increment(issueData.upvotes, -1),
                   !.upvotedBy = arrayRemove(issueData.upvotedBy, userId)]
    ELSE [d EXCEPT !.upvotes = increment(issueData.upvotes, 1),
                   !.upvotedBy = arrayUnion(issueData.upvotedBy, userId)]

UpvoteNeverRemoves(d, issueData, userId) ==
    [d EXCEPT !.upvotes = increment(@, 1), !.upvotedBy = arrayUnion(@, userId)]

UpvoteNoScan(d, issueData, userId) ==
    [d EXCEPT !.upvotes = increment(@, 1), !.upvotedBy = Append(@, userId)]

UpvoteUpdate(d, issueData, userId) ==
    IF includes(issueData.upvotedBy, userId)
    THEN [d EXCEPT !.upvotes = increment(@, -1), !.upvotedBy = arrayRemove(@, userId)]
    ELSE [d EXCEPT !.upvotes = increment(@, 1), !.upvotedBy = arrayUnion(@, userId)]

UpvoteReturn(issueData, userId) ==
    IF includes(issueData.upvotedBy, userId) THEN "false" ELSE "true"

\* getDoc: the call reads the document, or throws 'Issue not found'
UpvoteRead(p, i, u) ==
    /\ calls[p].pc # "read"
    /\ votes < MaxVotes
    /\ votes' = votes + 1
    /\ IF i \notin DOMAIN issues
       THEN /\ calls' = [calls EXCEPT ![p] = [IdleCall EXCEPT !.pc = "done",
                            !.issueId = i, !.userId = u, !.ret = "throw"]]
       ELSE LET over == \E q \in Callers \ {p} : InFlight(q, i)
            IN  calls' = [q \in Callers |->
                    IF q = p
                    THEN [pc |-> "read", issueId |-> i, userId |-> u,
                          issueData |-> VoteFields(issues[i]), ret |-> "none",
                          overlapped |-> over]
                    ELSE IF InFlight(q, i)
                         THEN [calls[q] EXCEPT !.overlapped = TRUE]
                         ELSE calls[q]]
    /\ UNCHANGED <<issues, prevVote, lastCall, cdn, notVote>>

\* updateDoc reaches the database; the call returns true (added) or false
UpvoteWrite(p) ==
    /\ calls[p].pc = "read"
    /\ LET c == calls[p]
           i == c.issueId
       IN  /\ issues' = [issues EXCEPT ![i] = UpvoteUpdate(@, c.issueData, c.userId)]
           /\ calls' = [calls EXCEPT ![p].pc = "done",
                                     ![p].ret = UpvoteReturn(c.issueData, c.userId)]
           /\ prevVote' =
                IF c.overlapped THEN NoVote
                ELSE LET second == /\ prevVote.valid
                                   /\ prevVote.issueId = i
                                   /\ prevVote.userId = c.userId
                     IN  [valid |-> TRUE, issueId |-> i, userId |-> c.userId,
                          before |-> VoteFields(issues[i]),
                          after |-> VoteFields(issues'[i]),
                          ret |-> UpvoteReturn(c.issueData, c.userId),
                          pair |-> second,
                          pairBefore |-> IF second THEN prevVote.before ELSE NoData]
    /\ UNCHANGED <<votes, lastCall, cdn, notVote>>

InitVote ==
    /\ issues = <<>>
    /\ calls = [p \in Callers |-> IdleCall]
    /\ votes = 0
    /\ prevVote = NoVote
    /\ lastCall = NoCall
    /\ cdn = {}

\* the votes are cast on issues created without an image
NextVote ==
    \/ AddIssue(PlainIssueData, FALSE, "ok")
    \/ CreateIssue(PlainIssueData, TRUE)
    \/ \E p \in Callers, i \in IssueIds, u \in Users : UpvoteRead(p, i, u)
    \/ \E p \in Callers : UpvoteWrite(p)


\* calls that never overlap: a call starts only when no other is in flight
NextVoteSeq ==
    \/ AddIssue(PlainIssueData, FALSE, "ok")
    \/ CreateIssue(PlainIssueData, TRUE)
    \/ \E p \in Callers, i \in IssueIds, u \in Users :
          /\ \A q \in Callers : calls[q].pc # "read"
          /\ UpvoteRead(p, i, u)
    \/ \E p \in Callers : UpvoteWrite(p)


\* ------------------------- Cloudinary-backed database service: the votes
\* the public ids Cloudinary gives to uploaded images
ImageIds == {"img1", "img2"}

NewPublicId == CHOOSE p \in ImageIds : p \notin cdn

\* imageData is held as its publicId
CldAddIssue(issueData, imageFile, outcome) ==
    /\ Cardinality(DOMAIN issues) < MaxIssues
    /\ outcome \in AddOutcomes(imageFile)
    /\ imageFile => cdn # ImageIds
    /\ LET uploaded == imageFile /\ outcome \in {"ok", "write"}
           imageData == IF uploaded THEN NewPublicId ELSE null
           more == [imageURL |-> IF uploaded THEN "url" ELSE null,
                    imageData |-> imageData, createdAt |-> "now", updatedAt |-> "now"]
       IN  /\ cdn' = IF uploaded THEN cdn \cup {imageData} ELSE cdn
           /\ issues' = IF outcome = "ok"
                        THEN issues @@ (NewId :> NewIssue(issueData, more))
                        ELSE issues
    /\ lastCall' = [NoCall EXCEPT
            !.fn = "addIssue", !.service = "cloudinary", !.failure = outcome,
            !.carried = "status" \in DOMAIN issueData,
            !.docsBefore = DOMAIN issues, !.cdnBefore = cdn,
            !.original = IF outcome \in DOMAIN Original THEN Original[outcome] ELSE <<>>,
            !.thrown = IF outcome = "upload"
                       THEN FailedToCreate(ImageUploadFailed(Original.upload))
                       ELSE IF outcome = "write" THEN FailedToCreate(Original.write)
                       ELSE <<>>]
    /\ UNCHANGED <<calls, votes, prevVote, notVote>>

\* one updateDoc, no read before it; on a missing document updateDoc throws
CldUpvoteIssue(i, u) ==
    /\ votes < MaxCldCalls
    /\ votes' = votes + 1
    /\ IF i \in DOMAIN issues
       THEN issues' = [issues EXCEPT ![i].upvotes = increment(@, 1),
                                     ![i].upvotedBy = arrayUnion(@, u)]
       ELSE UNCHANGED issues            \* 'Failed to upvote issue: ...'
    /\ UNCHANGED <<calls, prevVote, lastCall, cdn, notVote>>

CldRemoveUpvote(i, u) ==
    /\ votes < MaxCldCalls
    /\ votes' = votes + 1
    /\ IF i \in DOMAIN issues
       THEN issues' = [issues EXCEPT ![i].upvotes = increment(@, -1),
                                     ![i].upvotedBy = arrayRemove(@, u)]
       ELSE UNCHANGED issues            \* 'Failed to remove upvote: ...'
    /\ UNCHANGED <<calls, prevVote, lastCall, cdn, notVote>>

NextCld ==
    \/ CldAddIssue(PlainIssueData, FALSE, "ok")
    \/ \E i \in IssueIds, u \in Users : CldUpvoteIssue(i, u)
    \/ \E i \in IssueIds, u \in Users : CldRemoveUpvote(i, u)

\* ------------------- Cloudinary-backed database service: deleteIssue
FailedToDelete(message) == <<"Failed to delete issue: ">> \o message

CdnOutcomes == {"deleted", "not ok", "fetch rejects"}

\* deleteImageFromCloudinary: result.success, or false from its catch
deleteImageFromCloudinary(outcome) == outcome = "deleted"

ContinueOnlyIfDeleted(imageDeleted) == imageDeleted

\* the try / catch around the image deletion: deleteIssue goes on to
\* deleteDoc whatever deleteImageFromCloudinary did
ContinueAfterImage(imageDeleted) == TRUE

CldDeleteIssue(i, cdnOutcome, docOk) ==
    /\ IF i \notin DOMAIN issues
       THEN /\ lastCall' = [NoCall EXCEPT
                    !.fn = "deleteIssue", !.service = "cloudinary", !.issueId = i, !.failure = "missing",
                    !.docsBefore = DOMAIN issues, !.cdnBefore = cdn,
                    !.original = <<"Issue not found">>,
                    !.thrown = FailedToDelete(<<"Issue not found">>)]
            /\ UNCHANGED <<issues, cdn>>
       ELSE LET issueData == issues[i]
                hasImage == "imageData" \in DOMAIN issueData /\ issueData.imageData # null
                imageDeleted == hasImage /\ deleteImageFromCloudinary(cdnOutcome)
                goesOn == ~hasImage \/ ContinueAfterImage(imageDeleted)
                deleted == goesOn /\ docOk
            IN  /\ cdn' = IF imageDeleted THEN cdn \ {issueData.imageData} ELSE cdn
                /\ issues' = IF deleted
                             THEN [j \in DOMAIN issues \ {i} |-> issues[j]]
                             ELSE issues
                /\ lastCall' = [NoCall EXCEPT
                        !.fn = "deleteIssue", !.service = "cloudinary", !.issueId = i,
                        !.failure = IF deleted THEN "ok"
                                    ELSE IF goesOn THEN "write" ELSE "image",
                        !.docsBefore = DOMAIN issues, !.cdnBefore = cdn,
                        !.cdnFailed = hasImage /\ ~imageDeleted,
                        !.original = IF deleted THEN <<>>
                                     ELSE IF goesOn THEN Original.write
                                     ELSE <<"Failed to delete image">>,
                        !.thrown = IF deleted THEN <<>>
                                   ELSE IF goesOn THEN FailedToDelete(Original.write)
                                   ELSE FailedToDelete(<<"Failed to delete image">>)]
    /\ UNCHANGED <<calls, votes, prevVote, notVote>>

\* ------------------------------------------------- the status of an issue
\* updateDoc(issueRef, updates); on a missing document updateDoc throws
UpdateDoc(i, updates) ==
    issues' = IF i \in DOMAIN issues
              THEN [issues EXCEPT ![i] = ObjectSpread(@, updates)]
              ELSE issues

\* database.js: resolveIssue(issueId, adminId)
ResolveIssue(i, adminId) ==
    /\ UpdateDoc(i, [status |-> ISSUE_STATUS.RESOLVED, resolvedAt |-> "now",
                     resolvedBy |-> adminId])
    /\ UNCHANGED <<calls, votes, prevVote, lastCall, cdn, notVote>>

\* the status an admin's button asks for, from the status the row shows
ButtonStatus(shown) == IF shown = "Open" THEN "In Progress" ELSE "Resolved"

\* AdminDashboard.handleStatusUpdate, from the button of IssuesTab or of
\* IssueDetailModal (shown only while the row's status is not 'Resolved')
HandleStatusUpdate(i, shown, adminId) ==
    /\ shown # ISSUE_STATUS.RESOLVED
    /\ UpdateDoc(i, [status |-> ButtonStatus(shown), updatedAt |-> "now",
                     updatedBy |-> adminId])
    /\ UNCHANGED <<calls, votes, prevVote, lastCall, cdn, notVote>>

\* Dashboard.handleStatusUpdate, from the row's select
DashboardStatusUpdate(i, newStatus) ==
    /\ UpdateDoc(i, [status |-> newStatus])
    /\ UNCHANGED <<calls, votes, prevVote, lastCall, cdn, notVote>>

StatusOptions == {"Open", "In Progress", "Resolved"}

NextIssues ==
    \/ \E issueData \in IssueDataInputs, imageFile \in BOOLEAN :
          \E outcome \in AddOutcomes(imageFile) : AddIssue(issueData, imageFile, outcome)
    \/ \E issueData \in IssueDataInputs, ok \in BOOLEAN : CreateIssue(issueData, ok)
    \/ \E issueData \in IssueDataInputs, imageFile \in BOOLEAN :
          \E outcome \in AddOutcomes(imageFile) : CldAddIssue(issueData, imageFile, outcome)
    \/ \E i \in IssueIds, cdnOutcome \in CdnOutcomes, docOk \in BOOLEAN :
          CldDeleteIssue(i, cdnOutcome, docOk)


\* creations that succeed, resolveIssue and the dashboards' status changes
NextStatus ==
    \/ \E issueData \in IssueDataInputs, imageFile \in BOOLEAN :
          AddIssue(issueData, imageFile, "ok")
    \/ \E issueData \in IssueDataInputs : CreateIssue(issueData, TRUE)
    \/ \E i \in IssueIds, adminId \in Users : ResolveIssue(i, adminId)
    \/ \E i \in IssueIds, shown \in StatusOptions, adminId \in Users :
          HandleStatusUpdate(i, shown, adminId)
    \/ \E i \in IssueIds, newStatus \in StatusOptions : DashboardStatusUpdate(i, newStatus)


\* --------------------------------- optimized database service: the cache
CACHE_TIMEOUT == 5 * 60 * 1000

\* limit(filters.limit || 50)
DefaultLimit == 50

Undefined == "undefined"
Categories == {"Pothole", "Other"}
Getters == {"g1"}

\* the filters callers pass: {}, {category: 'Pothole'}
FilterInputs ==
    {[category |-> c, status |-> Undefined, userId |-> Undefined] :
        c \in {Undefined, "Pothole"}}

FilterFields == <<"category", "status", "userId">>

\* JSON.stringify(filters): the fields in order, undefined ones dropped
JSONstringify(filters) ==
    LET pair(k) == <<FilterFields[k], filters[FilterFields[k]]>>
        keep(pr) == pr[2] # Undefined
    IN  SelectSeq([k \in 1..Len(FilterFields) |-> pair(k)], keep)

getCachedDataExpiresLate(key) ==
    IF key \in DOMAIN cache /\ now - cache[key].timestamp <= CACHE_TIMEOUT
    THEN [found |-> TRUE, data |-> cache[key].data]
    ELSE [found |-> FALSE, data |-> <<>>]

\* getCachedData: found = FALSE stands for the null it returns; the cached
\* data is an array, which is truthy in getIssues' test even when empty
getCachedData(key) ==
    IF key \in DOMAIN cache /\ now - cache[key].timestamp < CACHE_TIMEOUT
    THEN [found |-> TRUE, data |-> cache[key].data]
    ELSE [found |-> FALSE, data |-> <<>>]

setCachedData(key, data) ==
    [k \in DOMAIN cache \cup {key} |->
        IF k = key THEN [data |-> data, timestamp |-> now] ELSE cache[k]]

\* new Map()
EmptyCache == [k \in {} |-> [data |-> <<>>, timestamp |-> 0]]

cacheKeep == cache

\* cache.clear()
cacheClear == EmptyCache

\* the query getIssues builds: where(...) per filter, orderBy('createdAt',
\* 'desc'), limit; the result lists the documents by id
Matches(d, filters) ==
    /\ filters.category # Undefined => d.category = filters.category
    /\ filters.status # Undefined => d.status = filters.status
    /\ filters.userId # Undefined => d.userId = filters.userId

\* createdAt is Timestamp.now() of the one createIssue call that runs at a
\* time, so the documents' createdAt order is their commit order
Newer(a, b) == a > b

QueryIssues(filters) ==
    LET S == {i \in 1..Len(issueDocs) : Matches(issueDocs[i], filters)}
        n == Cardinality(S)
        sorted == CHOOSE q \in [1..n -> S] :
                     \A j, k \in 1..n : j < k => Newer(q[j], q[k])
    IN  SubSeq(sorted, 1, IF n < DefaultLimit THEN n ELSE DefaultLimit)

\* failedAt: the step at which a failed createIssue call failed
IdleCreate == [pc |-> "idle", category |-> "", userId |-> Undefined, failedAt |-> ""]
IdleGet == [pc |-> "idle", filters |-> [category |-> Undefined, status |-> Undefined,
                                        userId |-> Undefined],
            issues |-> <<>>, ret |-> <<>>, hit |-> FALSE, age |-> -1]

Tick(d) ==
    /\ ticks < MaxTicks
    /\ ticks' = ticks + 1
    /\ now' = now + d
    /\ UNCHANGED <<cache, issueDocs, userDocs, create, get, notCache>>

\* createIssue up to the batch: with an image it first awaits uploadImage
CreateStart(category, userId, imageFile) ==
    /\ create.pc \in {"idle", "done", "failed"}
    /\ Len(issueDocs) < MaxOptIssues
    /\ create' = [pc |-> IF imageFile THEN "uploading" ELSE "commit",
                  category |-> category, userId |-> userId, failedAt |-> ""]
    /\ UNCHANGED <<now, ticks, cache, issueDocs, userDocs, get, notCache>>

\* uploadImage resolves, or throws and createIssue rethrows
CreateUploaded(ok) ==
    /\ create.pc = "uploading"
    /\ create' = IF ok THEN [create EXCEPT !.pc = "commit"]
                 ELSE [create EXCEPT !.pc = "failed", !.failedAt = "upload"]
    /\ UNCHANGED <<now, ticks, cache, issueDocs, userDocs, get, notCache>>

BatchCommitsIssueAlone(ok, userId) == ok

\* a write batch is applied as a whole or not at all: batch.update of a
\* user document that does not exist fails the batch
BatchCommits(ok, userId) == ok /\ (userId = Undefined \/ userId \in DOMAIN userDocs)

\* batch.commit() at the database: the issue document and the user's
\* issueCount together, or nothing when the user document is missing or the
\* commit is refused
CreateCommit(ok) ==
    /\ create.pc = "commit"
    /\ IF BatchCommits(ok, create.userId)
       THEN /\ issueDocs' = Append(issueDocs,
                    [category |-> create.category, userId |-> create.userId,
                     status |-> "Open", upvotes |-> 0])
            /\ userDocs' = IF create.userId = Undefined THEN userDocs
                           ELSE [u \in DOMAIN userDocs |->
                                    IF u = create.userId THEN increment(userDocs[u], 1)
                                    ELSE userDocs[u]]
            /\ create' = [create EXCEPT !.pc = "committed"]
       ELSE /\ create' = [create EXCEPT !.pc = "failed", !.failedAt = "commit"]
            /\ UNCHANGED <<issueDocs, userDocs>>
    /\ UNCHANGED <<now, ticks, cache, get, notCache>>

\* createIssue after the commit: cache.clear(), return
CreateFinish ==
    /\ create.pc = "committed"
    /\ cache' = cacheClear
    /\ create' = [create EXCEPT !.pc = "done"]
    /\ UNCHANGED <<now, ticks, issueDocs, userDocs, get, notCache>>

\* getIssues up to the query: a cached list is returned at once
GetIssues(g, filters) ==
    /\ get[g].pc \in {"idle", "done", "failed"}
    /\ LET cacheKey == JSONstringify(filters)
           cachedData == getCachedData(cacheKey)
           age == IF cacheKey \in DOMAIN cache THEN now - cache[cacheKey].timestamp
                  ELSE -1
       IN  get' = [get EXCEPT ![g] =
              IF cachedData.found
              THEN [pc |-> "done", filters |-> filters, issues |-> <<>>,
                    ret |-> cachedData.data, hit |-> TRUE, age |-> age]
              ELSE [pc |-> "query", filters |-> filters, issues |-> <<>>,
                    ret |-> <<>>, hit |-> FALSE, age |-> age]]
    /\ UNCHANGED <<now, ticks, cache, issueDocs, userDocs, create, notCache>>

\* getDocs(q) at the database; a failure makes getIssues throw
GetQuery(g, ok) ==
    /\ get[g].pc = "query"
    /\ get' = IF ok THEN [get EXCEPT ![g].pc = "fetched",
                                     ![g].issues = QueryIssues(get[g].filters)]
              ELSE [get EXCEPT ![g].pc = "failed"]
    /\ UNCHANGED <<now, ticks, cache, issueDocs, userDocs, create, notCache>>

\* getIssues after the query: setCachedData(cacheKey, issues), return issues
GetStore(g) ==
    /\ get[g].pc = "fetched"
    /\ cache' = setCachedData(JSONstringify(get[g].filters), get[g].issues)
    /\ get' = [get EXCEPT ![g].pc = "done", ![g].ret = get[g].issues]
    /\ UNCHANGED <<now, ticks, issueDocs, userDocs, create, notCache>>

InitCache ==
    /\ now = 0
    /\ ticks = 0
    /\ cache = EmptyCache
    /\ issueDocs = <<>>
    /\ userDocs = [u \in {"alice"} |-> 0]
    /\ create = IdleCreate
    /\ get = [g \in Getters |-> IdleGet]

NextCache ==
    \/ \E d \in {1, CACHE_TIMEOUT - 1} : Tick(d)
    \/ \E c \in Categories, u \in Users \cup {Undefined}, imageFile \in BOOLEAN :
          CreateStart(c, u, imageFile)
    \/ \E ok \in BOOLEAN : CreateUploaded(ok)
    \/ \E ok \in BOOLEAN : CreateCommit(ok)
    \/ CreateFinish
    \/ \E g \in Getters, filters \in FilterInputs : GetIssues(g, filters)
    \/ \E g \in Getters, ok \in BOOLEAN : GetQuery(g, ok)
    \/ \E g \in Getters : GetStore(g)

\* ------------------------------------ Cloudinary upload (fast and batch)
BATCH_SIZE == 3

\* a file argument: null, an image of at most 2 MB (JPEG, or a GIF, which
\* is not an allowed type), or a PNG above 2 MB, which is compressed first
FileKinds == {"null", "small_jpeg", "small_gif", "large_png"}

FastUploadFailed(message) == <<"Fast upload failed: ", message>>
TimeoutMessage == "Upload timeout after 30 seconds"
NoError == <<"", "">>

\* pc: none (not called), compress (awaiting compressImageFast), race
\* (awaiting Promise.race), body / errbody (awaiting response.json()),
\* fulfilled, rejected; request: the fetch; timer: the setTimeout of the race
NotCalled == [pc |-> "none", request |-> "none", timer |-> "none", error |-> NoError]

Settled(u) == u.pc \in {"fulfilled", "rejected"}

\* the call up to its first await
FastUploadStart(file) ==
    IF file = "null"
    THEN [NotCalled EXCEPT !.pc = "rejected",
             !.error = FastUploadFailed("No file provided for upload")]
    ELSE IF file = "large_png"
    THEN [NotCalled EXCEPT !.pc = "compress"]
    ELSE IF file # "small_jpeg"
    THEN [NotCalled EXCEPT !.pc = "rejected",
             !.error = FastUploadFailed("Invalid file type. Only JPEG, PNG, and WebP are allowed.")]
    ELSE [NotCalled EXCEPT !.pc = "race", !.request = "pending", !.timer = "armed"]

\* the timer's reject: it settles the race only when the race is pending
TimerRejectsAlways(u) ==
    [u EXCEPT !.timer = "fired", !.pc = "rejected",
              !.error = FastUploadFailed(TimeoutMessage)]

TimerReject(u) ==
    IF u.pc = "race"
    THEN [u EXCEPT !.timer = "fired", !.pc = "rejected",
                   !.error = FastUploadFailed(TimeoutMessage)]
    ELSE [u EXCEPT !.timer = "fired"]

\* the fetch settles: with a response (ok or not) or with a network error
FetchSettle(u, outcome) ==
    IF u.pc # "race" THEN [u EXCEPT !.request = outcome]
    ELSE IF outcome = "ok" THEN [u EXCEPT !.request = outcome, !.pc = "body"]
    ELSE IF outcome = "notok" THEN [u EXCEPT !.request = outcome, !.pc = "errbody"]
    ELSE [u EXCEPT !.request = outcome, !.pc = "rejected",
                   !.error = FastUploadFailed("Failed to fetch")]

\* uploadImageToCloudinaryFast(file, folder): the call up to its first await
FastUpload(c, file) ==
    /\ up[c].pc = "none"
    /\ up' = [up EXCEPT ![c] = FastUploadStart(file)]
    /\ UNCHANGED <<files, batch, promises, notUpload>>

\* compressImageFast resolves with a JPEG; the race starts
CompressDone(c) ==
    /\ up[c].pc = "compress"
    /\ up' = [up EXCEPT ![c] = [@ EXCEPT !.pc = "race", !.request = "pending",
                                          !.timer = "armed"]]
    /\ UNCHANGED <<files, batch, promises, notUpload>>

\* the file's data does not decode: the Image fires its error event, for
\* which compressImageFast sets no handler, so its promise stays pending
\* (pc "stuck") and the timer of the race is never armed
ImageError(c) ==
    /\ up[c].pc = "compress"
    /\ up' = [up EXCEPT ![c] = [@ EXCEPT !.pc = "stuck"]]
    /\ UNCHANGED <<files, batch, promises, notUpload>>

FetchSettles(c, outcome) ==
    /\ up[c].request = "pending"
    /\ up' = [up EXCEPT ![c] = FetchSettle(@, outcome)]
    /\ UNCHANGED <<files, batch, promises, notUpload>>

TimerFires(c) ==
    /\ up[c].timer = "armed"
    /\ up' = [up EXCEPT ![c] = TimerReject(@)]
    /\ UNCHANGED <<files, batch, promises, notUpload>>

\* response.json() of an ok response: the result, or a parse error
BodyParsed(c, ok) ==
    /\ up[c].pc = "body"
    /\ up' = [up EXCEPT ![c] =
                IF ok THEN [@ EXCEPT !.pc = "fulfilled"]
                ELSE [@ EXCEPT !.pc = "rejected",
                               !.error = FastUploadFailed("Unexpected end of JSON input")]]
    /\ UNCHANGED <<files, batch, promises, notUpload>>

\* response.json().catch(() => ({})) of a response that is not ok
ErrBodyParsed(c) ==
    /\ up[c].pc = "errbody"
    /\ up' = [up EXCEPT ![c] = [@ EXCEPT !.pc = "rejected",
                                   !.error = FastUploadFailed("Upload failed: ")]]
    /\ UNCHANGED <<files, batch, promises, notUpload>>

UploadCalls == 1..MaxUploads

NextUpload ==
    \/ \E c \in UploadCalls, file \in FileKinds : FastUpload(c, file)
    \/ \E c \in UploadCalls : CompressDone(c)
    \/ \E c \in UploadCalls : ImageError(c)
    \/ \E c \in UploadCalls, outcome \in {"ok", "notok", "failed"} : FetchSettles(c, outcome)
    \/ \E c \in UploadCalls : TimerFires(c)
    \/ \E c \in UploadCalls, ok \in BOOLEAN : BodyParsed(c, ok)
    \/ \E c \in UploadCalls : ErrBodyParsed(c)

\* ------------------------------------------------------ batchUploadImages
\* the promise uploadImageToCloudinaryFast(file, folder) returns, as
\* batchUploadImages sees it: rejected at once for a file the call throws
\* on before its first await, pending otherwise
UploadPromise(file) ==
    IF Settled(FastUploadStart(file)) THEN FastUploadStart(file).pc ELSE "pending"

\* fs.slice(i, i + BATCH_SIZE), as indices 1..fs.length
SliceRest(fs, i) == {f \in 1..Len(fs) : f > i}

Slice(fs, i) == {f \in 1..Len(fs) : f > i /\ f <= i + BATCH_SIZE}

\* await Promise.all(batchPromises) instead: rejects with the first rejection
PromiseAll(group) ==
    IF \E f \in group : promises[f] = "rejected" THEN "rejected"
    ELSE IF \A f \in group : promises[f] = "fulfilled" THEN "resolved"
    ELSE "pending"

\* await Promise.allSettled(batchPromises)
PromiseAllSettled(group) ==
    IF \A f \in group : promises[f] \in {"fulfilled", "rejected"}
    THEN "resolved" ELSE "pending"

\* batchResults, in the order of the batch
BatchResults(i) ==
    [k \in 1..Cardinality(Slice(files, i)) |-> [status |-> promises[i + k], file |-> i + k]]

\* batchUploadImages(files) up to its first await: the first batch is mapped
BatchCall(fs) ==
    /\ batch.pc = "idle"
    /\ files' = fs
    /\ promises' = [f \in 1..Len(fs) |->
                      IF f \in Slice(fs, 0) THEN UploadPromise(fs[f]) ELSE "none"]
    /\ batch' = [batch EXCEPT !.pc = IF Len(fs) = 0 THEN "done" ELSE "await"]
    /\ UNCHANGED <<up, notUpload>>

\* one upload call of the batch settles
UploadSettles(f, outcome) ==
    /\ f \in DOMAIN promises /\ promises[f] = "pending"
    /\ promises' = [promises EXCEPT ![f] = outcome]
    /\ UNCHANGED <<files, batch, up, notUpload>>

\* the await of the batch ends: results.push(...batchResults), then the
\* delay before the next batch, or the return
BatchAwaited ==
    /\ batch.pc = "await"
    /\ LET awaited == PromiseAllSettled(Slice(files, batch.i))
       IN  /\ awaited # "pending"
           /\ batch' =
                IF awaited = "rejected" THEN [batch EXCEPT !.pc = "rejected"]
                ELSE [batch EXCEPT
                        !.results = @ \o BatchResults(batch.i),
                        !.pc = IF batch.i + BATCH_SIZE < Len(files) THEN "delay" ELSE "done"]
    /\ UNCHANGED <<files, promises, up, notUpload>>

\* the 100 ms delay ends: i += BATCH_SIZE and the next batch is mapped
BatchDelayDone ==
    /\ batch.pc = "delay"
    /\ batch' = [batch EXCEPT !.i = @ + BATCH_SIZE, !.pc = "await"]
    /\ promises' = [f \in DOMAIN promises |->
                      IF f \in Slice(files, batch.i + BATCH_SIZE)
                      THEN UploadPromise(files[f]) ELSE promises[f]]
    /\ UNCHANGED <<files, up, notUpload>>

InitUpload ==
    /\ files = <<>>
    /\ batch = [pc |-> "idle", i |-> 0, results |-> <<>>]
    /\ promises = <<>>
    /\ up = [c \in UploadCalls |-> NotCalled]

FileLists == UNION {[1..n -> FileKinds] : n \in 0..MaxFiles}

NextBatch ==
    \/ \E fs \in FileLists : BatchCall(fs)
    \/ \E f \in 1..MaxFiles, outcome \in {"fulfilled", "rejected"} : UploadSettles(f, outcome)
    \/ BatchAwaited
    \/ BatchDelayDone

\* ------------------------------------------------------------ AuthProvider
NoUser == "null"

\* the role field of the documents of collection 'users'
UserRoles == [alice |-> "admin", bob |-> "citizen"]

\* getUserRole(uid): the document's role; 'citizen' when the document is
\* missing or getDoc throws
getUserRole(uid, ok) ==
    IF ok /\ uid \in DOMAIN UserRoles THEN UserRoles[uid] ELSE "citizen"

\* the observer callback up to its end (no user) or to its await of
\* getUserRole (a user)
AuthStateChanged(u) ==
    /\ reports < MaxReports
    /\ session # u
    /\ reports' = reports + 1
    /\ session' = u
    /\ IF u # NoUser
       THEN /\ user' = u
            /\ lookups' = lookups \cup {[uid |-> u, report |-> reports + 1]}
            /\ processed' = [processed EXCEPT !.latest = FALSE]
            /\ UNCHANGED <<userRole, loading>>
       ELSE /\ user' = NoUser
            /\ userRole' = "citizen"
            /\ loading' = FALSE
            /\ processed' = [processed EXCEPT !.latest = TRUE,
                                !.first = @ \/ reports = 0]
            /\ UNCHANGED lookups
    /\ UNCHANGED notAuth

\* getUserRole resolves and the callback that awaited it runs to its end
RoleLookedUp(l, ok) ==
    /\ l \in lookups
    /\ lookups' = lookups \ {l}
    /\ userRole' = getUserRole(l.uid, ok)
    /\ loading' = FALSE
    /\ processed' = [first |-> processed.first \/ l.report = 1,
                     latest |-> processed.latest \/ l.report = reports,
                     role |-> IF l.report = reports THEN getUserRole(l.uid, ok)
                              ELSE processed.role]
    /\ UNCHANGED <<session, reports, user, notAuth>>

InitAuth ==
    /\ session = "unknown"
    /\ reports = 0
    /\ user = NoUser
    /\ userRole = "citizen"
    /\ loading = TRUE
    /\ lookups = {}
    /\ processed = [first |-> FALSE, latest |-> FALSE, role |-> "citizen"]

NextAuth ==
    \/ \E u \in Users \cup {NoUser} : AuthStateChanged(u)
    \/ \E l \in lookups, ok \in BOOLEAN : RoleLookedUp(l, ok)

\* ------------------------- optimized database service: the network status
\* monitorNetworkStatus(): disableNetwork(db) or enableNetwork(db), by isOnline
NetworkFor(online) == IF online THEN "enabled" ELSE "disabled"

\* window 'online' listener: isOnline = true, nothing else
OnlineEvent ==
    /\ Len(netLog) < MaxNetSteps
    /\ isOnline' = TRUE
    /\ netLog' = Append(netLog, "online")
    /\ UNCHANGED <<network, notNet>>

\* window 'offline' listener: isOnline = false, nothing else
OfflineEvent ==
    /\ Len(netLog) < MaxNetSteps
    /\ isOnline' = FALSE
    /\ netLog' = Append(netLog, "offline")
    /\ UNCHANGED <<network, notNet>>

\* the exported monitorNetworkStatus, called again by a user of the module
MonitorNetworkStatus ==
    /\ Len(netLog) < MaxNetSteps
    /\ network' = NetworkFor(isOnline)
    /\ netLog' = Append(netLog, "monitor")
    /\ UNCHANGED <<isOnline, notNet>>

\* the module has been loaded in a browser that is online: isOnline =
\* navigator.onLine, then the one monitorNetworkStatus() call of the module
InitNet ==
    /\ isOnline = TRUE
    /\ network = NetworkFor(TRUE)
    /\ netLog = <<>>

NextNet ==
    \/ OnlineEvent
    \/ OfflineEvent
    \/ MonitorNetworkStatus

\* ---------------------------------------- AdminDashboard: the escalation
\* coordinates are held in units of 1/10000 degree; a timestamp is held as
\* its age in hours when checkEscalatedIssues runs; a missing location is
\* held as a record that is not defined
Locations ==
    [a1 |-> [defined |-> TRUE, lat |-> 123456, lng |-> 771234],
     a2 |-> [defined |-> TRUE, lat |-> 123462, lng |-> 771229],
     b |-> [defined |-> TRUE, lat |-> 123444, lng |-> 771234],
     zero |-> [defined |-> TRUE, lat |-> 0, lng |-> 771234],
     none |-> [defined |-> FALSE, lat |-> 0, lng |-> 0]]

\* an issue as getIssues returns it
Issue(id, kind, age) == [id |-> id, location |-> Locations[kind], timestamp |-> age]

RecentAge == 1
OldAge == 30
RecentKinds == {"none", "zero", "a1", "b"}
OldKinds == {"a2"}

\* what getIssues() resolves to: newest first (orderBy timestamp desc)
IssueLists ==
    LET Lists(n, m) ==
            {[k \in 1..(n + m) |->
                 IF k <= n THEN Issue(k, r[k], RecentAge)
                 ELSE Issue(k, o[k - n], OldAge)] :
             r \in [1..n -> RecentKinds], o \in [1..m -> OldKinds]}
    IN  UNION {UNION {Lists(n, m) : m \in 0..(MaxAdminIssues - n)} :
               n \in 0..MaxAdminIssues}

\* !issue.location?.lat || !issue.location?.lng : undefined and 0 are falsy
Skipped(issue) ==
    \/ ~issue.location.defined
    \/ issue.location.lat = 0
    \/ issue.location.lng = 0

\* Math.round(x * 1000), x in units of 1/10000: the nearest integer, halves up
MathRound1000(x) == (x + 5) \div 10

\* `${Math.round(lat * 1000)}-${Math.round(lng * 1000)}`: the two integers
\* joined by '-', which determines both of them
Key(issue) == <<MathRound1000(issue.location.lat), MathRound1000(issue.location.lng)>>

\* moment(issue.timestamp).isAfter(moment().subtract(24, 'hours'))
IsRecent(issue) == issue.timestamp < 24

\* locationGroups[key]: the issues pushed under key, in the order of issues
Group(iss, key) == SelectSeq(iss, LAMBDA x : ~Skipped(x) /\ Key(x) = key)

\* Object.values(locationGroups): the groups in the order their keys were
\* first seen
RECURSIVE KeysOf(_)
KeysOf(iss) ==
    IF iss = <<>> THEN <<>>
    ELSE LET front == SubSeq(iss, 1, Len(iss) - 1)
             x == iss[Len(iss)]
             ks == KeysOf(front)
         IN  IF Skipped(x) \/ includes(ks, Key(x)) THEN ks ELSE Append(ks, Key(x))

EscalationOf(group) ==
    LET recent == SelectSeq(group, IsRecent)
    IN  [location |-> group[1].location, issues |-> recent, count |-> Len(recent)]

Flags(group) == Len(group) >= 5 /\ Len(SelectSeq(group, IsRecent)) >= 3

checkEscalatedIssues(iss) ==
    LET ks == KeysOf(iss)
        flagged == SelectSeq(ks, LAMBDA key : Flags(Group(iss, key)))
    IN  [k \in 1..Len(flagged) |-> EscalationOf(Group(iss, flagged[k]))]

\* fetchData of the mount effect: setIssues(issuesData), setLoading(false)
FetchData(issuesData) ==
    /\ admin.loading
    /\ admin' = [admin EXCEPT !.issues = issuesData, !.loading = FALSE]
    /\ UNCHANGED notAdmin

\* checkEscalatedIssues of the current render: setEscalatedIssues(escalated)
CheckEscalatedIssues ==
    /\ admin' = [admin EXCEPT !.escalatedIssues = checkEscalatedIssues(admin.issues),
                              !.checked = TRUE]
    /\ UNCHANGED notAdmin

InitAdmin ==
    admin = [issues |-> <<>>, escalatedIssues |-> <<>>, loading |-> TRUE,
             checked |-> FALSE]

NextAdmin ==
    \/ \E issuesData \in IssueLists : FetchData(issuesData)
    \/ CheckEscalatedIssues

\* ------------------------------------------------------- Report: the form
\* a string typed into the form: text characters, with pad spaces around them
Str(text, pad) == [text |-> text, pad |-> pad]

length(s) == s.text + s.pad

trim(s) == Str(s.text, 0)

EmptyStr == Str(0, 0)

\* !s : the empty string is falsy
Falsy(s) == length(s) = 0

FormFields == {"title", "description", "category", "location", "latitude", "longitude"}

\* the values typed or selected in each field
FieldValues ==
    [title |-> {EmptyStr, Str(0, 5), Str(4, 0), Str(4, 1)},
     description |-> {EmptyStr, Str(0, 20), Str(19, 0), Str(19, 1)},
     category |-> {EmptyStr, Str(7, 0)},
     location |-> {EmptyStr, Str(0, 3), Str(3, 0)},
     latitude |-> {EmptyStr, Str(5, 0)},
     longitude |-> {EmptyStr, Str(5, 0)}]

EmptyForm == [f \in FormFields |-> EmptyStr]

TitleErrorNoLength(formData) ==
    IF Falsy(trim(formData.title)) THEN "Title is required" ELSE ""

TitleError(formData) ==
    IF Falsy(trim(formData.title)) THEN "Title is required"
    ELSE IF length(formData.title) < 5
         THEN "Title must be at least 5 characters long"
         ELSE ""

DescriptionError(formData) ==
    IF Falsy(trim(formData.description)) THEN "Description is required"
    ELSE IF length(formData.description) < 20
         THEN "Description must be at least 20 characters long"
         ELSE ""

\* validateForm: newErrors, with a key for each check that failed
validateForm(formData) ==
    LET msg == [title |-> TitleError(formData),
                description |-> DescriptionError(formData),
                category |-> IF Falsy(formData.category)
                             THEN "Category is required" ELSE "",
                location |-> IF Falsy(trim(formData.location))
                             THEN "Location is required" ELSE "",
                coordinates |-> IF Falsy(formData.latitude) \/ Falsy(formData.longitude)
                                THEN "Please provide coordinates or use current location"
                                ELSE ""]
    IN  [k \in {j \in DOMAIN msg : msg[j] # ""} |-> msg[k]]

NoErrors == [k \in {} |-> ""]

\* useAuth(): the user of the context changes and the page renders again
ReportUser(u) ==
    /\ ~report.loading
    /\ report.user # u
    /\ report' = [report EXCEPT !.user = u, !.submitted = FALSE]
    /\ UNCHANGED notReport

\* handleInputChange: the field is set; a message shown for it is blanked
HandleInputChange(name, value) ==
    /\ ~report.loading /\ ~report.navigated
    /\ report.formData[name] # value
    /\ report' = [report EXCEPT
            !.formData[name] = value,
            !.errors = IF name \in DOMAIN @ /\ @[name] # ""
                       THEN [@ EXCEPT ![name] = ""] ELSE @,
            !.submitted = FALSE]
    /\ UNCHANGED notReport

\* handleSubmit up to its await of createIssue
HandleSubmit ==
    /\ ~report.loading /\ ~report.navigated
    /\ IF report.user = NoUser
       THEN report' = [report EXCEPT
               !.errors = [auth |-> "Please log in to report an issue"],
               !.submitted = TRUE, !.called = FALSE]
       ELSE LET newErrors == validateForm(report.formData)
            IN  IF DOMAIN newErrors # {}
                THEN report' = [report EXCEPT !.errors = newErrors,
                                   !.submitted = TRUE, !.called = FALSE]
                ELSE report' = [report EXCEPT !.errors = newErrors,
                                   !.loading = TRUE,
                                   !.submitted = TRUE, !.called = TRUE]
    /\ UNCHANGED notReport

\* createIssue settles: alert and navigate('/'), or the submit message
CreateIssueSettles(ok) ==
    /\ report.loading
    /\ report' = [report EXCEPT
            !.loading = FALSE,
            !.navigated = ok,
            !.errors = IF ok THEN @
                       ELSE [submit |-> "Failed to create issue: "]]
    /\ UNCHANGED notReport

\* submitted: handleSubmit ran on the form as it is now; called: that run
\* called createIssue
InitReport ==
    report = [user |-> NoUser, formData |-> EmptyForm, errors |-> NoErrors,
              loading |-> FALSE, navigated |-> FALSE, submitted |-> FALSE,
              called |-> FALSE]

NextReport ==
    \/ \E u \in Users \cup {NoUser} : ReportUser(u)
    \/ \E name \in FormFields : \E value \in FieldValues[name] :
          HandleInputChange(name, value)
    \/ HandleSubmit
    \/ \E ok \in BOOLEAN : CreateIssueSettles(ok)

\* ------------------------------------------------------ Home: the filters
\* what getIssues() resolves to
HomeIssueLists ==
    UNION {{[k \in 1..n |-> [id |-> k, category |-> c[k], status |-> st[k]]] :
            c \in [1..n -> {"Pothole", "Other"}], st \in [1..n -> {"Open", "Resolved"}]} :
           n \in 0..MaxHomeIssues}

\* the options of the two selects; '' is 'all'
CategoryOptions == {"", "Pothole", "Other"}
StatusSelectOptions == {"", "Open", "Resolved"}

filterIssuesByCategoryOnly(iss, selectedCategory, selectedStatus) ==
    IF selectedCategory # ""
    THEN SelectSeq(iss, LAMBDA issue : issue.category = selectedCategory)
    ELSE iss

\* filterIssues: the value it hands to setFilteredIssues
filterIssues(iss, selectedCategory, selectedStatus) ==
    LET byCategory == IF selectedCategory # ""
                      THEN SelectSeq(iss, LAMBDA issue : issue.category = selectedCategory)
                      ELSE iss
    IN  IF selectedStatus # ""
        THEN SelectSeq(byCategory, LAMBDA issue : issue.status = selectedStatus)
        ELSE byCategory

\* fetchIssues after its await (at mount, or from a card's onUpdate)
FetchIssues(fetchedIssues) ==
    /\ home' = [home EXCEPT !.issues = fetchedIssues,
                            !.filteredIssues = fetchedIssues,
                            !.loading = FALSE,
                            !.effect = TRUE,
                            !.fetched = TRUE]
    /\ UNCHANGED notHome

SelectCategory(c) ==
    /\ ~home.loading
    /\ home.selectedCategory # c
    /\ home' = [home EXCEPT !.selectedCategory = c, !.effect = TRUE]
    /\ UNCHANGED notHome

SelectStatus(st) ==
    /\ ~home.loading
    /\ home.selectedStatus # st
    /\ home' = [home EXCEPT !.selectedStatus = st, !.effect = TRUE]
    /\ UNCHANGED notHome

\* the effect on [issues, selectedCategory, selectedStatus]
FilterEffect ==
    /\ home.effect
    /\ home' = [home EXCEPT
            !.filteredIssues = filterIssues(home.issues, home.selectedCategory,
                                            home.selectedStatus),
            !.effect = FALSE]
    /\ UNCHANGED notHome

\* mounted: both effects have run once, getIssues is pending
InitHome ==
    home = [issues |-> <<>>, filteredIssues |-> <<>>, loading |-> TRUE,
            selectedCategory |-> "", selectedStatus |-> "", effect |-> FALSE,
            fetched |-> FALSE]

NextHome ==
    \/ \E fetchedIssues \in HomeIssueLists : FetchIssues(fetchedIssues)
    \/ \E c \in CategoryOptions : SelectCategory(c)
    \/ \E st \in StatusSelectOptions : SelectStatus(st)
    \/ FilterEffect

\* -------------------------------------------------------- App: the routes
Paths == {"/", "/report", "/login", "/profile", "/dashboard"}

Page(name) == [page |-> name, to |-> ""]

Navigate(to) == [page |-> "Navigate", to |-> to]

RouteElementAnyUser(st, path) ==
    IF path = "/dashboard" /\ st.user # NoUser THEN Page("AdminDashboard")
    ELSE IF path \in {"/report", "/profile"} /\ st.user = NoUser THEN Navigate("/login")
    ELSE Page(path)

\* the element of the Route that matches path
RouteElement(st, path) ==
    IF path = "/" THEN Page("Home")
    ELSE IF path = "/report"
         THEN IF st.user # NoUser THEN Page("Report") ELSE Navigate("/login")
    ELSE IF path = "/login"
         THEN IF st.user = NoUser THEN Page("Login") ELSE Navigate("/")
    ELSE IF path = "/profile"
         THEN IF st.user # NoUser THEN Page("Profile") ELSE Navigate("/login")
    ELSE IF st.user # NoUser /\ st.userRole = "admin"
         THEN Page("AdminDashboard") ELSE Navigate("/")

\* what App returns: the spinner while loading, else the matching element
Rendered(st) == IF st.loading THEN Page("LoadingSpinner") ELSE RouteElement(st, st.path)

\* a rendered Navigate replaces the location, and App renders again
Render(st) ==
    LET e == Rendered(st)
    IN  IF e.page = "Navigate" THEN [st EXCEPT !.path = e.to] ELSE st

\* the observer callback up to its end (no user) or to its await of
\* getUserRole (a user)
AppAuthStateChanged(u) ==
    /\ app.reports < MaxReports
    /\ app.session # u
    /\ app' = Render(
          IF u # NoUser
          THEN [app EXCEPT !.session = u, !.reports = @ + 1, !.user = u,
                           !.lookups = @ \cup {[uid |-> u, report |-> app.reports + 1]}]
          ELSE [app EXCEPT !.session = u, !.reports = @ + 1, !.user = NoUser,
                           !.userRole = "citizen", !.loading = FALSE,
                           !.processed = TRUE])
    /\ UNCHANGED notApp

\* getUserRole resolves and the callback that awaited it runs to its end
AppRoleLookedUp(l, ok) ==
    /\ l \in app.lookups
    /\ app' = Render([app EXCEPT !.lookups = @ \ {l},
                                 !.userRole = getUserRole(l.uid, ok),
                                 !.loading = FALSE,
                                 !.processed = TRUE])
    /\ UNCHANGED notApp

\* the browser's location changes: a link, the address bar
GoTo(path) ==
    /\ app.path # path
    /\ app' = Render([app EXCEPT !.path = path])
    /\ UNCHANGED notApp

\* processed: an observer callback has run to its end
InitApp ==
    app = [user |-> NoUser, userRole |-> "citizen", loading |-> TRUE, path |-> "/",
           session |-> "unknown", reports |-> 0, lookups |-> {}, processed |-> FALSE]

NextApp ==
    \/ \E u \in Users \cup {NoUser} : AppAuthStateChanged(u)
    \/ \E l \in app.lookups, ok \in BOOLEAN : AppRoleLookedUp(l, ok)
    \/ \E path \in Paths : GoTo(path)

\* ------------------------------ AdminDashboard: the Issues tab's buttons
TabIssueIds == {"i1", "i2"}

NoSelection == [id |-> null, status |-> null]

\* IssueDetailModal lies over the whole page (fixed inset-0): while it is
\* open, the buttons under it take no click
NoModal(s) == tabs[s].selectedIssue = NoSelection

\* the statuses of the issue objects a session holds in its state
Fetched == [i \in DOMAIN tabIssues |-> tabIssues[i].status]

\* fetchData (on mount, and from the refresh button): setIssues(issuesData)
RefreshData(s) ==
    /\ NoModal(s)
    /\ tabs' = [tabs EXCEPT ![s].issues = Fetched]
    /\ UNCHANGED <<tabIssues, requests, notTab>>

\* handleStatusUpdate up to its await: setUpdating(issueId), updateIssue(...)
StartStatusUpdate(s, issueId, newStatus) ==
    requests' = requests \cup
            {[session |-> s, fn |-> "updateIssue", issueId |-> issueId, status |-> newStatus]}

\* IssuesTab: the row's status button, rendered while the row's status is
\* not 'Resolved', disabled while updating === issue.id
StatusButton(s, i) ==
    /\ NoModal(s)
    /\ i \in DOMAIN tabs[s].issues
    /\ tabs[s].issues[i] # ISSUE_STATUS.RESOLVED
    /\ tabs[s].updating # i
    /\ StartStatusUpdate(s, i, ButtonStatus(tabs[s].issues[i]))
    /\ tabs' = [tabs EXCEPT ![s].updating = i]
    /\ UNCHANGED <<tabIssues, notTab>>

\* IssuesTab: the row's eye button, setSelectedIssue(issue)
ViewDetails(s, i) ==
    /\ NoModal(s)
    /\ i \in DOMAIN tabs[s].issues
    /\ tabs' = [tabs EXCEPT ![s].selectedIssue = [id |-> i, status |-> tabs[s].issues[i]]]
    /\ UNCHANGED <<tabIssues, requests, notTab>>

\* IssueDetailModal: Close
CloseModal(s) ==
    /\ ~NoModal(s)
    /\ tabs' = [tabs EXCEPT ![s].selectedIssue = NoSelection]
    /\ UNCHANGED <<tabIssues, requests, notTab>>

\* IssueDetailModal: the status button, from the issue object the modal was
\* opened with; onStatusUpdate(...) and then onClose()
ModalStatusButton(s) ==
    LET issue == tabs[s].selectedIssue
    IN  /\ issue # NoSelection
        /\ issue.status # ISSUE_STATUS.RESOLVED
        /\ StartStatusUpdate(s, issue.id, ButtonStatus(issue.status))
        /\ tabs' = [tabs EXCEPT ![s].updating = issue.id, ![s].selectedIssue = NoSelection]
        /\ UNCHANGED <<tabIssues, notTab>>

\* handleDeleteIssue up to its await, the confirm dialog accepted
DeleteButton(s, i) ==
    /\ NoModal(s)
    /\ i \in DOMAIN tabs[s].issues
    /\ tabs[s].updating # i
    /\ requests' = requests \cup
            {[session |-> s, fn |-> "deleteIssue", issueId |-> i, status |-> null]}
    /\ tabs' = [tabs EXCEPT ![s].updating = i]
    /\ UNCHANGED <<tabIssues, notTab>>

\* updateIssue settles, and handleStatusUpdate runs on: updateDoc throws on
\* a document that is gone; then setIssues(prev => prev.map(...)) unless it
\* threw, and setUpdating(null) in finally
UpdateIssueSettles(r, ok) ==
    LET done == ok /\ r.issueId \in DOMAIN tabIssues
        view == tabs[r.session].issues
    IN  /\ r \in requests /\ r.fn = "updateIssue"
        /\ requests' = requests \ {r}
        /\ tabIssues' = IF done
                        THEN [tabIssues EXCEPT ![r.issueId] =
                                ObjectSpread(@, [status |-> r.status, updatedBy |-> r.session])]
                        ELSE tabIssues
        /\ tabs' = [tabs EXCEPT
                ![r.session].issues =
                    IF done
                    THEN [i \in DOMAIN view |-> IF i = r.issueId THEN r.status ELSE view[i]]
                    ELSE view,
                ![r.session].updating = null]
        /\ UNCHANGED notTab

\* deleteIssue settles, and handleDeleteIssue runs on:
\* setIssues(prev => prev.filter(...)) unless it threw, setUpdating(null)
DeleteIssueSettles(r, ok) ==
    LET view == tabs[r.session].issues
    IN  /\ r \in requests /\ r.fn = "deleteIssue"
        /\ requests' = requests \ {r}
        /\ tabIssues' = IF ok
                        THEN [i \in DOMAIN tabIssues \ {r.issueId} |-> tabIssues[i]]
                        ELSE tabIssues
        /\ tabs' = [tabs EXCEPT
                ![r.session].issues =
                    IF ok THEN [i \in DOMAIN view \ {r.issueId} |-> view[i]] ELSE view,
                ![r.session].updating = null]
        /\ UNCHANGED notTab

\* the admins have opened the dashboard on open issues, fetchData is done
InitTab ==
    /\ tabIssues = [i \in TabIssueIds |-> [status |-> ISSUE_STATUS.OPEN, updatedBy |-> null]]
    /\ tabs = [s \in Users |->
                [issues |-> [i \in TabIssueIds |-> ISSUE_STATUS.OPEN],
                 updating |-> null, selectedIssue |-> NoSelection]]
    /\ requests = {}

\* what the sessions in ss may do while fewer than max requests are in flight
TabSteps(ss, max) ==
    \/ \E s \in ss : RefreshData(s)
    \/ \E s \in ss, i \in TabIssueIds : Cardinality(requests) < max /\ StatusButton(s, i)
    \/ \E s \in ss, i \in TabIssueIds : ViewDetails(s, i)
    \/ \E s \in ss : CloseModal(s)
    \/ \E s \in ss : Cardinality(requests) < max /\ ModalStatusButton(s)
    \/ \E s \in ss, i \in TabIssueIds : Cardinality(requests) < max /\ DeleteButton(s, i)
    \/ \E r \in requests, ok \in BOOLEAN : UpdateIssueSettles(r, ok)
    \/ \E r \in requests, ok \in BOOLEAN : DeleteIssueSettles(r, ok)

\* one admin session, its requests overlapping
NextTab == TabSteps({"alice"}, MaxRequests)

\* several admin sessions on the same issues
NextAdmins == TabSteps(Users, MaxAdminRequests)

\* ------------------- Cloudinary-backed database service: updateIssue
FailedToUpdate(message) == <<"Failed to update issue: ">> \o message

UpdateDataInputs == {[title |-> "t"], [status |-> ISSUE_STATUS.RESOLVED]}

OldImageDeletedAnyway(uploaded, hasOld, cdnOutcome) ==
    hasOld /\ deleteImageFromCloudinary(cdnOutcome)

\* the old image is deleted inside the try of the upload, after the upload
\* has returned
OldImageDeleted(uploaded, hasOld, cdnOutcome) ==
    uploaded /\ hasOld /\ deleteImageFromCloudinary(cdnOutcome)

\* if (finalUpdateData.status === ISSUE_STATUS.RESOLVED && !finalUpdateData.resolvedAt)
WithResolvedAt(finalUpdateData) ==
    IF /\ "status" \in DOMAIN finalUpdateData
       /\ finalUpdateData.status = ISSUE_STATUS.RESOLVED
       /\ ("resolvedAt" \notin DOMAIN finalUpdateData \/ finalUpdateData.resolvedAt = null)
    THEN ObjectSpread(finalUpdateData, [resolvedAt |-> "now"])
    ELSE finalUpdateData

\* updateIssue(issueId, updateData, newImageFile); outcome as for addIssue:
\* "upload" the upload rejects, "write" updateDoc rejects
CldUpdateIssue(i, updateData, newImageFile, outcome, cdnOutcome) ==
    /\ outcome \in AddOutcomes(newImageFile)
    /\ newImageFile => cdn # ImageIds
    /\ LET exists == i \in DOMAIN issues
           hasOld == /\ exists
                     /\ "imageData" \in DOMAIN issues[i]
                     /\ issues[i].imageData # null
           uploaded == newImageFile /\ outcome \in {"ok", "write"}
           oldDeleted == newImageFile /\ OldImageDeleted(uploaded, hasOld, cdnOutcome)
           imageFields == IF uploaded
                          THEN [imageURL |-> "url", imageData |-> NewPublicId]
                          ELSE <<>>
           finalUpdateData ==
               WithResolvedAt(ObjectSpread(ObjectSpread(updateData, imageFields),
                                           [updatedAt |-> "now"]))
           written == outcome = "ok" /\ exists
           failure == IF outcome = "ok" /\ ~exists THEN "missing" ELSE outcome
           original == IF failure = "missing" THEN <<"No document to update">>
                       ELSE IF failure \in DOMAIN Original THEN Original[failure]
                       ELSE <<>>
       IN  /\ cdn' = (cdn \cup (IF uploaded THEN {NewPublicId} ELSE {}))
                        \ (IF oldDeleted THEN {issues[i].imageData} ELSE {})
           /\ issues' = IF written
                        THEN [issues EXCEPT ![i] = ObjectSpread(@, finalUpdateData)]
                        ELSE issues
           /\ lastCall' = [NoCall EXCEPT
                   !.fn = "updateIssue", !.service = "cloudinary", !.issueId = i,
                   !.failure = failure,
                   !.docsBefore = DOMAIN issues, !.cdnBefore = cdn, !.issuesBefore = issues,
                   !.cdnFailed = uploaded /\ hasOld /\ ~oldDeleted,
                   !.original = original,
                   !.thrown = IF failure = "upload"
                              THEN FailedToUpdate(ImageUploadFailed(original))
                              ELSE IF failure \in {"write", "missing"}
                              THEN FailedToUpdate(original)
                              ELSE <<>>]
    /\ UNCHANGED <<calls, votes, prevVote, notVote>>

\* issues with and without an image, and updateIssue calls on them
NextUpdate ==
    \/ \E imageFile \in BOOLEAN : CldAddIssue(PlainIssueData, imageFile, "ok")
    \/ \E i \in IssueIds, updateData \in UpdateDataInputs, newImageFile \in BOOLEAN :
          \E outcome \in AddOutcomes(newImageFile), cdnOutcome \in CdnOutcomes :
              CldUpdateIssue(i, updateData, newImageFile, outcome, cdnOutcome)

\* ---------------------------------------------------- the specifications
Init == InitVote /\ InitCache /\ InitUpload /\ InitAuth /\ InitNet
        /\ InitAdmin /\ InitReport /\ InitHome /\ InitApp /\ InitTab

SpecVote == Init /\ [][NextVote]_vars

SpecVoteSeq == Init /\ [][NextVoteSeq]_vars

SpecCld == Init /\ [][NextCld]_vars

SpecIssues == Init /\ [][NextIssues]_vars

SpecStatus == Init /\ [][NextStatus]_vars

SpecUpdate == Init /\ [][NextUpdate]_vars

SpecCache == Init /\ [][NextCache]_vars

SpecUpload == Init /\ [][NextUpload]_vars

\* the browser delivers every event that is due: image load or error, the
\* response or failure of a fetch, a timer, a parsed body
SpecUploadLive == Init /\ [][NextUpload]_vars /\ WF_vars(NextUpload)

SpecBatch == Init /\ [][NextBatch]_vars

SpecAuth == Init /\ [][NextAuth]_vars

SpecNet == Init /\ [][NextNet]_vars

SpecAdmin == Init /\ [][NextAdmin]_vars

SpecReport == Init /\ [][NextReport]_vars

SpecHome == Init /\ [][NextHome]_vars

SpecApp == Init /\ [][NextApp]_vars

SpecTab == Init /\ [][NextTab]_vars

SpecAdmins == Init /\ [][NextAdmins]_vars

\* ------------------------------------------------------------ C1, C2, C3
Range(arr) == {arr[k] : k \in 1..Len(arr)}

NoDuplicates(arr) == \A j, k \in 1..Len(arr) : arr[j] = arr[k] => j = k

\* what a call without overlap did to the vote fields, and what it returned
Toggled(v) ==
    IF v.userId \in Range(v.before.upvotedBy)
    THEN /\ v.userId \notin Range(v.after.upvotedBy)
         /\ Range(v.after.upvotedBy) = Range(v.before.upvotedBy) \ {v.userId}
         /\ v.after.upvotes = v.before.upvotes - 1
         /\ v.ret = "false"
    ELSE /\ v.after.upvotedBy = Append(v.before.upvotedBy, v.userId)
         /\ v.after.upvotes = v.before.upvotes + 1
         /\ v.ret = "true"

\* C1 as stated: a call that overlaps no other toggles the user's vote, and
\* two consecutive calls by the same user restore upvotes and upvotedBy to
\* their values before the first call.
C1_ToggleRestoresExactly ==
    prevVote.valid =>
        /\ Toggled(prevVote)
        /\ prevVote.pair => prevVote.after = prevVote.pairBefore

\* C1 amended: a call that overlaps no other toggles the user's vote, and two
\* consecutive calls by the same user restore upvotes and the set of users in
\* upvotedBy (a removed and re-added user moves to the end of the array).
C1_ToggleRestoresSet ==
    prevVote.valid =>
        /\ Toggled(prevVote)
        /\ prevVote.pair =>
              /\ prevVote.after.upvotes = prevVote.pairBefore.upvotes
              /\ Range(prevVote.after.upvotedBy) = Range(prevVote.pairBefore.upvotedBy)
              /\ Len(prevVote.after.upvotedBy) = Len(prevVote.pairBefore.upvotedBy)

\* a user who had voted removed the vote and added it again, another vote present
C1_Witness ==
    /\ prevVote.valid /\ prevVote.pair
    /\ prevVote.ret = "true"
    /\ Len(prevVote.pairBefore.upvotedBy) = 2

\* C2: after non-overlapping upvoteIssue calls on issues created by addIssue
\* or createIssue, no user occurs twice in upvotedBy and upvotes is the
\* number of entries of upvotedBy (so it is never negative).
C2_NoDuplicateVotes ==
    \A i \in DOMAIN issues :
        /\ NoDuplicates(issues[i].upvotedBy)
        /\ issues[i].upvotes = Len(issues[i].upvotedBy)
        /\ issues[i].upvotes >= 0

\* a vote was removed while another user's vote stays
C2_Witness ==
    /\ prevVote.valid /\ prevVote.ret = "false"
    /\ issues[prevVote.issueId].upvotes = 1
    /\ Len(issues[prevVote.issueId].upvotedBy) = 1

\* p's write arrives last of two calls that both read the same document
\* before either wrote
LastOfOverlap(p, q) ==
    /\ p # q
    /\ calls[p].pc = "read" /\ calls'[p].pc = "done"
    /\ calls[p].overlapped /\ calls[q].overlapped
    /\ calls[q].pc = "done" /\ calls[q].ret # "throw"
    /\ calls[q].issueId = calls[p].issueId
    /\ calls[q].issueData = calls[p].issueData

Delta(c) == IF c.userId \in Range(c.issueData.upvotedBy) THEN -1 ELSE 1

Applied(arr, c) ==
    IF c.userId \in Range(c.issueData.upvotedBy)
    THEN SelectSeq(arr, LAMBDA y : y # c.userId)
    ELSE IF c.userId \in Range(arr) THEN arr ELSE Append(arr, c.userId)

\* C3 as stated: of two overlapping calls the last write wins: the final
\* upvotes and upvotedBy are what the last write alone makes of the document
\* both calls read, and neither call is rejected.
C3_LastWriteWins ==
    [][\A p, q \in Callers : LastOfOverlap(p, q) =>
          LET c == calls[p]
              i == c.issueId
          IN  /\ issues'[i].upvotes = c.issueData.upvotes + Delta(c)
              /\ issues'[i].upvotedBy = Applied(c.issueData.upvotedBy, c)
              /\ calls'[p].ret \in {"true", "false"}]_vars

\* C3 amended: both writes of two overlapping calls take effect, in the
\* order they arrive, each applied to the document as it then is: upvotes
\* moves by both calls' increments, upvotedBy has both calls' union / remove
\* applied, and neither call is rejected.
C3_BothWritesApply ==
    [][\A p, q \in Callers : LastOfOverlap(p, q) =>
          LET c == calls[p]
              i == c.issueId
          IN  /\ issues'[i].upvotes = c.issueData.upvotes + Delta(calls[q]) + Delta(c)
              /\ issues'[i].upvotedBy =
                    Applied(Applied(c.issueData.upvotedBy, calls[q]), c)
              /\ calls'[p].ret \in {"true", "false"}]_vars

\* two overlapping calls by different users have both completed
C3_Witness ==
    /\ calls["c1"].pc = "done" /\ calls["c2"].pc = "done"
    /\ calls["c1"].overlapped /\ calls["c2"].overlapped
    /\ calls["c1"].ret = "true" /\ calls["c2"].ret = "true"
    /\ calls["c1"].issueData = calls["c2"].issueData
    /\ calls["c1"].userId # calls["c2"].userId
    /\ issues[calls["c1"].issueId].upvotes = calls["c1"].issueData.upvotes + 2

\* ------------------------------------------------------------------- C4
\* C4: in the Cloudinary-backed variant, after any upvoteIssue / removeUpvote
\* calls on an issue created by addIssue each user is counted at most once:
\* upvotes is the number of users in upvotedBy and never negative.
C4_CldNoDuplicateVotes ==
    \A i \in DOMAIN issues :
        /\ issues[i].upvotes = Cardinality(Range(issues[i].upvotedBy))
        /\ issues[i].upvotes >= 0

\* --------------------------------------------------------------- C5, C6
GetStarts(g) == get[g].pc \in {"idle", "done", "failed"} /\ get'[g] # get[g]

C6_CacheTTL ==
    [][\A g \in Getters :
        LET k == JSONstringify(get'[g].filters)
            fresh == k \in DOMAIN cache /\ now - cache[k].timestamp < CACHE_TIMEOUT
        IN  /\ GetStarts(g) =>
                /\ fresh => /\ get'[g].pc = "done"
                            /\ get'[g].ret = cache[k].data
                            /\ get'[g].hit /\ get'[g].age < CACHE_TIMEOUT
                /\ ~fresh => get'[g].pc = "query" /\ ~get'[g].hit
                /\ cache' = cache
            /\ (get[g].pc = "fetched" /\ get'[g].pc = "done") =>
                /\ k \in DOMAIN cache'
                /\ cache'[k] = [data |-> get[g].issues, timestamp |-> now]
                /\ \A j \in DOMAIN cache \ {k} : j \in DOMAIN cache' /\ cache'[j] = cache[j]
                /\ get'[g].ret = get[g].issues]_vars

\* a cached list is served one millisecond before it expires
C6_Witness ==
    /\ get["g1"].pc = "done" /\ get["g1"].hit
    /\ get["g1"].age = CACHE_TIMEOUT - 1
    /\ Len(get["g1"].ret) >= 1

\* ----------------------------------------------------------- C7, C8, C9
GroupOf(f) == (f - 1) \div 3

C8_OneResultPerFile ==
    /\ batch.pc # "rejected"
    /\ batch.pc = "done" =>
          /\ Len(batch.results) = Len(files)
          /\ \A k \in 1..Len(files) :
                /\ batch.results[k].file = k
                /\ batch.results[k].status \in {"fulfilled", "rejected"}
                /\ batch.results[k].status = promises[k]

\* a batch of two groups returned although uploads of both groups rejected
C8_Witness ==
    /\ batch.pc = "done"
    /\ Len(files) = 4
    /\ batch.results[2].status = "rejected" /\ batch.results[3].status = "fulfilled"
    /\ batch.results[4].status = "rejected"

\* C9: uploadImageToCloudinaryFast races the request against the timer: a
\* timer that fires while the request is pending rejects the call with
\* 'Fast upload failed: Upload timeout after 30 seconds'; a request that
\* settles first decides the outcome alone (by the response or the network
\* error), and the timer firing afterwards changes nothing. The loser of
\* the race never changes a settled call.
C9_RaceWithTimer ==
    [][\A c \in UploadCalls :
        /\ (up[c].timer = "armed" /\ up'[c].timer = "fired") =>
              IF up[c].request = "pending"
              THEN /\ up'[c].pc = "rejected"
                   /\ up'[c].error = <<"Fast upload failed: ", "Upload timeout after 30 seconds">>
              ELSE up'[c].pc = up[c].pc /\ up'[c].error = up[c].error
        /\ (up[c].request = "pending" /\ up'[c].request # "pending") =>
              IF up[c].timer = "armed"
              THEN /\ up'[c].request = "ok" => up'[c].pc = "body"
                   /\ up'[c].request = "notok" => up'[c].pc = "errbody"
                   /\ up'[c].request = "failed" =>
                         /\ up'[c].pc = "rejected"
                         /\ up'[c].error[2] # "Upload timeout after 30 seconds"
              ELSE up'[c].pc = up[c].pc /\ up'[c].error = up[c].error
        /\ Settled(up[c]) => up'[c].pc = up[c].pc /\ up'[c].error = up[c].error]_vars

\* one call fulfilled before its timer fired, another timed out before its
\* request came back ok
C9_Witness ==
    /\ up[1].pc = "fulfilled" /\ up[1].timer = "fired"
    /\ up[2].pc = "rejected" /\ up[2].error[2] = TimeoutMessage
    /\ up[2].request = "ok"

\* ------------------------------------------------------------------ C10
\* C10: AuthProvider's state follows the session stream: once the observer
\* has reported no user, user is null and userRole is 'citizen'; once it
\* has reported a user and that user's role lookup has completed, user is
\* that user and userRole is the role looked up; once the first report has
\* been processed, loading is false.
C10_StateFollowsSession ==
    /\ session = NoUser => user = NoUser /\ userRole = "citizen"
    /\ (session \in Users /\ processed.latest) =>
          user = session /\ userRole = processed.role
    /\ processed.first => ~loading

\* ------------------------------------------------------------------ C11
LastEvent ==
    LET ev == SelectSeq(netLog, LAMBDA e : e \in {"online", "offline"})
    IN  IF ev = <<>> THEN "none" ELSE ev[Len(ev)]

\* C11: database connectivity follows the browser's events: after an
\* 'offline' event the Firestore network is disabled, and after a following
\* 'online' event it is enabled again.
C11_NetworkFollowsEvents ==
    /\ LastEvent = "offline" => network = "disabled"
    /\ LastEvent = "online" => network = "enabled"

\* ------------------------------------------------------------------ C12
\* an issue has coordinates when its location carries a latitude and a
\* longitude
HasCoordinates(issue) == issue.location.defined

Bucket(issue) == Key(issue)

InBucket(iss, key) == SelectSeq(iss, LAMBDA x : HasCoordinates(x) /\ Bucket(x) = key)

Buckets(iss) == {Bucket(iss[k]) : k \in {j \in 1..Len(iss) : HasCoordinates(iss[j])}}

ShouldFlag(iss, key) ==
    /\ Len(InBucket(iss, key)) >= 5
    /\ Len(SelectSeq(InBucket(iss, key), IsRecent)) >= 3

\* C12: after checkEscalatedIssues has run on the dashboard's issues, a
\* bucket of issues that have coordinates is flagged if and only if it
\* holds at least 5 issues of which at least 3 are recent; each entry lists
\* exactly the bucket's recent issues and its count is their number; issues
\* without coordinates are in no entry.
C12_EscalationFlags ==
    (admin.checked /\ admin.escalatedIssues = checkEscalatedIssues(admin.issues)) =>
        LET iss == admin.issues
            esc == admin.escalatedIssues
        IN  /\ \A key \in Buckets(iss) :
                  ShouldFlag(iss, key) <=>
                      \E k \in 1..Len(esc) : Bucket(esc[k].issues[1]) = key
            /\ \A k \in 1..Len(esc) :
                  /\ esc[k].issues # <<>>
                  /\ esc[k].issues =
                        SelectSeq(InBucket(iss, Bucket(esc[k].issues[1])), IsRecent)
                  /\ esc[k].count = Len(esc[k].issues)
                  /\ \A j \in 1..Len(esc[k].issues) : HasCoordinates(esc[k].issues[j])

\* ------------------------------------------------------------------ C13
NonBlank(s) == s.text > 0

\* what the form must satisfy, field by field (the key is the one errors
\* uses for the field)
FieldOk ==
    [title |-> NonBlank(report.formData.title) /\ length(report.formData.title) >= 5,
     description |-> /\ NonBlank(report.formData.description)
                     /\ length(report.formData.description) >= 20,
     category |-> report.formData.category # EmptyStr,
     location |-> NonBlank(report.formData.location),
     coordinates |-> /\ report.formData.latitude # EmptyStr
                     /\ report.formData.longitude # EmptyStr]

Failing == {k \in DOMAIN FieldOk : ~FieldOk[k]}

HasMessage(k) == k \in DOMAIN report.errors /\ report.errors[k] # ""

\* C13 (as stated): handleSubmit calls createIssue only when a user is
\* signed in and every field passes; in every other case no issue is
\* created and errors carries a message for each failing field.
C13_MessagesForEveryFailingField ==
    report.submitted =>
        /\ report.called => report.user # NoUser /\ Failing = {}
        /\ ~report.called => \A k \in Failing : HasMessage(k)

\* C13 (amended): handleSubmit calls createIssue exactly when a user is
\* signed in and every field passes; with no user signed in the form is not
\* validated and errors is the auth message alone; with a user signed in and
\* a failing field, errors carries a message for exactly the failing fields.
C13_ValidatedOnlyWhenSignedIn ==
    report.submitted =>
        /\ report.called <=> (report.user # NoUser /\ Failing = {})
        /\ (~report.called /\ report.user = NoUser) =>
              report.errors = [auth |-> "Please log in to report an issue"]
        /\ (~report.called /\ report.user # NoUser) =>
              /\ DOMAIN report.errors = Failing
              /\ \A k \in Failing : HasMessage(k)

C13_Witness ==
    /\ report.submitted /\ ~report.called
    /\ report.user = NoUser
    /\ "title" \in Failing
    /\ "description" \notin Failing

\* ------------------------------------------------------------------ C14
AddFailed == lastCall.fn = "addIssue" /\ lastCall.failure \in {"upload", "write"}

\* C14 (as stated): addIssue rethrows every failure of the image upload or
\* of the database write as an Error whose message is 'Failed to create
\* issue: ' followed by the original message; when the image upload fails,
\* no issue document is written.
C14_PrefixThenOriginal ==
    AddFailed =>
        /\ lastCall.thrown = <<"Failed to create issue: ">> \o lastCall.original
        /\ lastCall.failure = "upload" => DOMAIN issues = lastCall.docsBefore

\* C14 (amended): the message is 'Failed to create issue: ' followed by the
\* original message, except that the Cloudinary-backed addIssue puts 'Image
\* upload failed: ' between the two when it was the image upload that
\* failed; when the image upload fails, no issue document is written.
C14_PrefixThenOriginalOrUploadNote ==
    AddFailed =>
        /\ lastCall.thrown =
              IF lastCall.service = "cloudinary" /\ lastCall.failure = "upload"
              THEN <<"Failed to create issue: ", "Image upload failed: ">>
                      \o lastCall.original
              ELSE <<"Failed to create issue: ">> \o lastCall.original
        /\ lastCall.original # <<>>
        /\ lastCall.failure = "upload" => DOMAIN issues = lastCall.docsBefore

C14_Witness ==
    /\ AddFailed
    /\ lastCall.service = "cloudinary"
    /\ lastCall.failure = "upload"

\* ------------------------------------------------------------------ C15
StatusValid == \A i \in DOMAIN issues : issues[i].status \in StatusOptions

FreshIssue(d) ==
    /\ d.status = "Open"
    /\ d.upvotes = 0
    /\ d.upvotedBy = <<>>
    /\ d.resolvedAt = null
    /\ d.resolvedBy = null

\* C15: every issue's stored status is one of 'Open', 'In Progress',
\* 'Resolved' after any sequence of creations, resolveIssue calls and status
\* changes from the admin dashboards; an issue is created 'Open' with
\* upvotes 0, an empty upvotedBy and null resolvedAt / resolvedBy, whatever
\* issueData carried for those fields.
C15_StatusOneOfThree ==
    /\ []StatusValid
    /\ [][\A i \in DOMAIN issues' \ DOMAIN issues : FreshIssue(issues'[i])]_vars

\* an issue created from issueData that carried status 'Closed' has been
\* moved on by a dashboard
C15_Witness ==
    /\ lastCall.fn = "createIssue" /\ lastCall.carried
    /\ \E i \in DOMAIN issues :
          /\ i \notin lastCall.docsBefore
          /\ issues[i].status = "In Progress"
          /\ issues[i].upvotes = 0

\* ------------------------------------------------------------------ C16
DeleteCalled == lastCall.fn = "deleteIssue"

\* C16: deleteIssue of the Cloudinary-backed service deletes the issue
\* document even when deleting the issue's image from the CDN fails; when
\* the issue does not exist it throws 'Failed to delete issue: Issue not
\* found' and deletes nothing.
C16_DeletesDespiteImageFailure ==
    DeleteCalled =>
        /\ (lastCall.issueId \in lastCall.docsBefore /\ lastCall.failure # "write") =>
              /\ lastCall.issueId \notin DOMAIN issues
              /\ lastCall.thrown = <<>>
        /\ lastCall.issueId \notin lastCall.docsBefore =>
              /\ lastCall.thrown = <<"Failed to delete issue: ", "Issue not found">>
              /\ DOMAIN issues = lastCall.docsBefore
              /\ cdn = lastCall.cdnBefore

C16_Witness ==
    /\ DeleteCalled
    /\ lastCall.cdnFailed
    /\ lastCall.issueId \in lastCall.docsBefore
    /\ lastCall.issueId \notin DOMAIN issues

\* ------------------------------------------------------------------ C17
\* the issue passes the selections (an empty selection passes everything)
Selected(issue) ==
    /\ home.selectedCategory # "" => issue.category = home.selectedCategory
    /\ home.selectedStatus # "" => issue.status = home.selectedStatus

IsSubList(sub, full) ==
    \E keep \in SUBSET {full[k].id : k \in 1..Len(full)} :
        sub = SelectSeq(full, LAMBDA issue : issue.id \in keep)

\* C17: once the filter effect has run, filteredIssues is exactly the
\* sub-list of issues that pass the selected category and the selected
\* status, in the order of issues; with a status selected the list holds no
\* issue that the category alone would not give; this holds after every
\* re-fetch.
C17_FilteredIsSelectedSubList ==
    ~home.effect =>
        /\ home.filteredIssues = SelectSeq(home.issues, Selected)
        /\ IsSubList(home.filteredIssues,
                     SelectSeq(home.issues,
                         LAMBDA issue : home.selectedCategory # "" =>
                                            issue.category = home.selectedCategory))

C17_Witness ==
    /\ ~home.effect
    /\ home.fetched
    /\ home.selectedStatus = "Resolved"
    /\ home.selectedCategory = "Pothole"
    /\ Len(home.filteredIssues) = 2
    /\ Len(home.issues) = 3
    /\ home.filteredIssues[1].id = 1
    /\ home.filteredIssues[2].id = 3

\* ------------------------------------------------------------------ C18
AllCallsCompleted == \A p \in Callers : calls[p].pc # "read"

\* C18: under any interleaving of upvoteIssue calls on the same issue, the
\* same user's overlapping calls included, once all calls have completed
\* upvotes equals the number of users in upvotedBy.
C18_UpvotesCountVoters ==
    AllCallsCompleted =>
        \A i \in DOMAIN issues : issues[i].upvotes = Len(issues[i].upvotedBy)

\* ------------------------------------------------------------------ C19
isAdmin == userRole = "admin"

\* the role a lookup for the signed-in user can return: the role of the
\* user's document, or 'citizen' when getDoc fails
RolesOf(u) == IF u \in Users THEN {UserRoles[u], "citizen"} ELSE {"citizen"}

\* C19: whenever no role lookup is pending, userRole is the role of the
\* currently signed-in user, or 'citizen' when nobody is signed in, in
\* whatever order reports arrive and lookups complete; isAdmin is never true
\* while user is null, and no user holds the role looked up for another.
C19_RoleOfCurrentUser ==
    /\ lookups = {} => userRole \in RolesOf(session)
    /\ user = NoUser => ~isAdmin

\* ------------------------------------------------------------------ C20
Shown == Rendered(app).page

AnyCallbackEnded == app.processed

Advances(from, to) ==
    \/ to = from
    \/ from = ISSUE_STATUS.OPEN /\ to = ISSUE_STATUS.IN_PROGRESS
    \/ from = ISSUE_STATUS.IN_PROGRESS /\ to = ISSUE_STATUS.RESOLVED

\* C21: with the Issues tab's actions alone, every step leaves the stored
\* status of an issue as it is or moves it one step along Open ->
\* In Progress -> Resolved, so that a Resolved issue stays Resolved, also
\* with several admin sessions on the same issue
C21_StatusOnlyAdvances ==
    [][\A i \in DOMAIN tabIssues \cap DOMAIN tabIssues' :
            Advances(tabIssues[i].status, tabIssues'[i].status)]_vars

\* ------------------------------------------------------------------ C22
\* C22: while a status update or a delete request for an issue is in
\* flight, updating of the session that sent it is that issue's id, which
\* is what disables the issue's status and delete buttons
C22_DisabledWhileInFlight ==
    \A r \in requests : tabs[r.session].updating = r.issueId

\* ------------------------------------------------------------------ C25
UpdateCalled == lastCall.fn = "updateIssue" /\ lastCall.service = "cloudinary"

\* C25: after updateIssue with a new image whose upload failed, Cloudinary
\* and the issue documents are as before the call and the error is 'Failed
\* to update issue: Image upload failed: ' and the upload's message; after
\* one where deleting the old image failed, updateDoc was still called, and
\* unless it rejected the document holds the new image
C25_UploadBeforeOldImage ==
    UpdateCalled =>
        /\ lastCall.failure = "upload" =>
              /\ cdn = lastCall.cdnBefore
              /\ issues = lastCall.issuesBefore
              /\ lastCall.thrown = <<"Failed to update issue: ", "Image upload failed: ">>
                                        \o lastCall.original
        /\ lastCall.cdnFailed =>
              /\ lastCall.failure \in {"ok", "write"}
              /\ lastCall.issuesBefore[lastCall.issueId].imageData \in cdn
              /\ lastCall.failure = "ok" =>
                    /\ issues[lastCall.issueId].imageData \in cdn \ lastCall.cdnBefore
                    /\ issues[lastCall.issueId].imageURL = "url"

\* the upload of the new image failed for an issue that has an old image
C25_Witness ==
    /\ UpdateCalled
    /\ lastCall.failure = "upload"
    /\ lastCall.issueId \in DOMAIN lastCall.issuesBefore
    /\ lastCall.issuesBefore[lastCall.issueId].imageData \in cdn

\* ------------------------------------------------------------------ C23
\* C23: every issue whose stored status is 'Resolved' has a resolvedAt
\* that is not null
C23_ResolvedHasResolvedAt ==
    \A i \in DOMAIN issues :
        issues[i].status = ISSUE_STATUS.RESOLVED => issues[i].resolvedAt # null

\* ------------------------------------------------------------------ C26
\* the documents committed by createIssue calls that have completed: all
\* but the one of a call that has committed and not yet returned
CompletedDocs ==
    1..(IF create.pc = "committed" THEN Len(issueDocs) - 1 ELSE Len(issueDocs))

\* C26: a getIssues call that starts after a createIssue call has completed
\* and returns a cached list returns one that was read after that call's
\* commit: the list has every document of a completed createIssue that
\* matches the filters
C26_NoStaleListAfterCreate ==
    [][\A g \in Getters :
        (GetStarts(g) /\ get'[g].pc = "done") =>
            \A k \in CompletedDocs :
                Matches(issueDocs[k], get'[g].filters) => includes(get'[g].ret, k)]_vars

\* ------------------------------------------------------------------ C24
\* the issue documents created with userId u
IssuesOf(u) == {k \in 1..Len(issueDocs) : issueDocs[k].userId = u}

\* C24: every user's issueCount has grown (from 0) by the number of issue
\* documents created with that userId, every issue document with a userId
\* has a user document, and a createIssue call whose commit fails leaves
\* the issue documents and the user documents as they were
C24_BatchIsAtomic ==
    /\ [](/\ \A u \in DOMAIN userDocs : userDocs[u] = Cardinality(IssuesOf(u))
          /\ \A k \in 1..Len(issueDocs) :
                issueDocs[k].userId = Undefined \/ issueDocs[k].userId \in DOMAIN userDocs)
    /\ [][(create.pc = "commit" /\ create'.pc = "failed") =>
              issueDocs' = issueDocs /\ userDocs' = userDocs]_vars

\* the commit of a createIssue call for a user without a user document
\* has failed
C24_Witness ==
    /\ create.pc = "failed" /\ create.failedAt = "commit"
    /\ create.userId # Undefined /\ create.userId \notin DOMAIN userDocs

\* ------------------------------------------------------------------ C27
\* C27: every call of uploadImageToCloudinaryFast that has been made is
\* eventually fulfilled or rejected
C27_EveryCallSettles ==
    \A c \in UploadCalls : (up[c].pc # "none") ~> Settled(up[c])

====
